---- MODULE Spec2Model ----
(***************************************************************************)
(* Registry (src/kibana/utils/registry/registry.js): an Array extension    *)
(* that keeps a plain mirror (.raw) of its content and exposes lazily      *)
(* computed, cached group / index / order views of that mirror.            *)
(***************************************************************************)
EXTENDS Integers, Sequences, FiniteSets

(* ---------------------------------------------------------------------- *)
(* Bounds and input domains                                               *)
(* ---------------------------------------------------------------------- *)

\* longest public sequence / raw mirror explored
MaxLen == 3
\* most records passed to one push / unshift / splice call
MaxArgs == 2
\* longest config.initialSet
MaxInit == 1

\* the documents stored in the registry: two share the value of "kind"
Records == {[kind |-> 1, v |-> 1], [kind |-> 1, v |-> 2], [kind |-> 2, v |-> 1]}
\* the property paths a configuration may name
Paths == {"kind"}

\* all sequences over S of length 0..n
SeqUpTo(S, n) == UNION {[1..m -> S] : m \in 0..n}

\* an optional property of the configuration: absent, or given with a list
absent == [given |-> FALSE, list |-> <<>>]
given(list) == [given |-> TRUE, list |-> list]

\* config.group / config.index / config.order when given: empty, one path,
\* or two paths (possibly the same path twice)
PropLists == {<<>>} \cup {<<p>> : p \in Paths} \cup {<<p, q>> : p \in Paths, q \in Paths}
\* config.initialSet when given
InitialSets == SeqUpTo(Records, MaxInit)
\* the configurations handed to the constructor
Configs ==
  [group : {absent} \cup {given(l) : l \in PropLists},
   index : {absent} \cup {given(l) : l \in PropLists},
   order : {absent} \cup {given(l) : l \in PropLists},
   initialSet : {absent} \cup {given(l) : l \in InitialSets},
   immutable : BOOLEAN]

(* ---------------------------------------------------------------------- *)
(* External collaborators                                                 *)
(* ---------------------------------------------------------------------- *)

\* utils/registry/_path_getter: the getter for a property path
pathGetter(prop, rec) == rec[prop]

\* upper-cases the first letter of a path
upFirst(prop) == CASE prop = "kind" -> "Kind" [] OTHER -> prop

\* inflector('by'): "kind" -> "byKind"
inflectIndex(prop) == "by" \o upFirst(prop)

\* inflector('in', 'Order'): "kind" -> "inKindOrder"
inflectOrder(prop) == "in" \o upFirst(prop) \o "Order"

inflect(which, prop) == IF which = "inflectIndex" THEN inflectIndex(prop) ELSE inflectOrder(prop)

\* the empty object {}
EmptyObject == [x \in {} |-> <<>>]

\* obj[key] = value on a plain object
Put(obj, key, value) == [x \in DOMAIN obj \cup {key} |-> IF x = key THEN value ELSE obj[x]]

\* _.groupBy(collection, from): each record is appended to the list under its key
RECURSIVE groupByFrom(_, _, _, _)
groupByFrom(coll, from, i, result) ==
  IF i > Len(coll) THEN result
  ELSE LET key == pathGetter(from, coll[i])
           next == IF key \in DOMAIN result
                     THEN Put(result, key, Append(result[key], coll[i]))
                     ELSE Put(result, key, <<coll[i]>>)
       IN groupByFrom(coll, from, i + 1, next)

groupBy(coll, from) == groupByFrom(coll, from, 1, EmptyObject)

\* _.indexBy(collection, from): result[key] = record, in iteration order
RECURSIVE indexByFrom(_, _, _, _)
indexByFrom(coll, from, i, result) ==
  IF i > Len(coll) THEN result
  ELSE indexByFrom(coll, from, i + 1, Put(result, pathGetter(from, coll[i]), coll[i]))

\* faulty variant of indexBy: a key that is already present is kept
RECURSIVE indexByFirstFrom(_, _, _, _)
indexByFirstFrom(coll, from, i, result) ==
  IF i > Len(coll) THEN result
  ELSE indexByFirstFrom(coll, from, i + 1,
         IF pathGetter(from, coll[i]) \in DOMAIN result THEN result
         ELSE Put(result, pathGetter(from, coll[i]), coll[i]))

indexByFirst(coll, from) == indexByFirstFrom(coll, from, 1, EmptyObject)

indexBy(coll, from) == indexByFrom(coll, from, 1, EmptyObject)

\* faulty variant of compareAscending: ties go to the later entry
compareTiesReversed(a, b) ==
  IF a.criteria < b.criteria THEN -1
  ELSE IF a.criteria > b.criteria THEN 1
  ELSE b.index - a.index

\* compareAscending on {criteria, index}: by criteria, then by original index
compareAscending(a, b) ==
  IF a.criteria < b.criteria THEN -1
  ELSE IF a.criteria > b.criteria THEN 1
  ELSE a.index - b.index

\* insert entry e into the sorted list of entries
RECURSIVE insertSorted(_, _)
insertSorted(sorted, e) ==
  IF sorted = <<>> THEN <<e>>
  ELSE IF compareAscending(e, Head(sorted)) < 0 THEN <<e>> \o sorted
  ELSE <<Head(sorted)>> \o insertSorted(Tail(sorted), e)

RECURSIVE sortEntries(_, _, _, _)
sortEntries(coll, from, i, sorted) ==
  IF i > Len(coll) THEN sorted
  ELSE sortEntries(coll, from, i + 1,
         insertSorted(sorted, [criteria |-> pathGetter(from, coll[i]), index |-> i, value |-> coll[i]]))

\* _.sortBy(collection, from): a new array, ascending by criteria, stable
sortBy(coll, from) ==
  LET sorted == sortEntries(coll, from, 1, <<>>)
  IN [j \in 1..Len(sorted) |-> sorted[j].value]

\* op(self.raw, from) for the op a view was declared with
applyOp(op, coll, from) ==
  CASE op = "groupBy" -> groupBy(coll, from)
    [] op = "indexBy" -> indexBy(coll, from)
    [] OTHER -> sortBy(coll, from)

(* ---------------------------------------------------------------------- *)
(* Array.prototype methods with side effects                              *)
(* ---------------------------------------------------------------------- *)

Methods == {"pop", "push", "shift", "splice", "unshift", "reverse"}

Min(a, b) == IF a < b THEN a ELSE b
Max(a, b) == IF a > b THEN a ELSE b

\* the arguments object of a call: argc arguments, of which start and
\* deleteCount are read by splice only and items by push, unshift and splice
Args(argc, start, deleteCount, items) ==
  [argc |-> argc, start |-> start, deleteCount |-> deleteCount, items |-> items]
NoArgs == Args(0, 0, 0, <<>>)
ItemArgs(items) == Args(Len(items), 0, 0, items)

\* values a call hands back
Value(type, val) == [type |-> type, val |-> val]
undefined == Value("undefined", <<>>)

\* Array.prototype.reverse, element by element
RECURSIVE reversed(_)
reversed(seq) == IF seq = <<>> THEN <<>> ELSE Append(reversed(Tail(seq)), Head(seq))

\* Array.prototype.splice on seq
spliceOf(seq, args) ==
  LET len == Len(seq)
      relativeStart == IF args.argc = 0 THEN 0 ELSE args.start
      actualStart == IF relativeStart < 0 THEN Max(len + relativeStart, 0)
                     ELSE Min(relativeStart, len)
      actualDeleteCount ==
        IF args.argc = 0 THEN 0
        ELSE IF args.argc = 1 THEN len - actualStart
        ELSE Min(Max(args.deleteCount, 0), len - actualStart)
      deleted == SubSeq(seq, actualStart + 1, actualStart + actualDeleteCount)
      kept == SubSeq(seq, 1, actualStart) \o args.items
              \o SubSeq(seq, actualStart + actualDeleteCount + 1, len)
  IN [seq |-> kept, ret |-> Value("array", deleted)]

\* orig.apply(target, arguments) for orig = Array.prototype[method]: the
\* content of the target afterwards and the value returned
orig(method, seq, args) ==
  CASE method = "push" ->
         [seq |-> seq \o args.items, ret |-> Value("number", Len(seq) + Len(args.items))]
    [] method = "unshift" ->
         [seq |-> args.items \o seq, ret |-> Value("number", Len(seq) + Len(args.items))]
    [] method = "pop" ->
         IF seq = <<>> THEN [seq |-> seq, ret |-> undefined]
         ELSE [seq |-> SubSeq(seq, 1, Len(seq) - 1), ret |-> Value("record", seq[Len(seq)])]
    [] method = "shift" ->
         IF seq = <<>> THEN [seq |-> seq, ret |-> undefined]
         ELSE [seq |-> Tail(seq), ret |-> Value("record", Head(seq))]
    [] method = "reverse" ->
         [seq |-> reversed(seq), ret |-> Value("array", reversed(seq))]
    [] OTHER -> spliceOf(seq, args)

(* ---------------------------------------------------------------------- *)
(* The Registry instance                                                  *)
(* ---------------------------------------------------------------------- *)

VARIABLES
  phase,       \* "new" before the constructor ran, then "ready", or "failed" when it threw
  immutable,   \* config.immutable as the constructor was given it
  array,       \* the elements of the Registry itself (this[0 .. length-1])
  raw,         \* this.raw
  props,       \* the accessor properties defined on the instance: name -> [op, from]
  cache,       \* the cache variable closed over by each accessor
  indexNames,  \* this._indexNames
  removed,     \* the methods shadowed by undefined on the instance
  error,       \* what the last call threw, "none" when it returned
  ret,         \* what the last call returned
  calls,       \* the entry point called last, then the calls it made, in order
  pending      \* the wrapped method a caller is inside of, and how far it got

vars ==
  <<phase, immutable, array, raw, props, cache, indexNames, removed, error, ret, calls,
    pending>>

\* the private marker only _clearIndices writes
CLEAR_CACHE == "CLEAR_CACHE"
\* values code outside the module can assign: none of them is CLEAR_CACHE
ExternalValues == {"false", "{}"}

\* the states of a cache variable: never assigned, false, or the object an
\* op returned
Cell(tag, val) == [tag |-> tag, val |-> val]
cacheUndefined == Cell("undefined", <<>>)
cacheFalse == Cell("false", <<>>)
\* faulty variant of truthy: an empty result counts as falsy
truthyNonEmpty(cell) == cell.tag = "object" /\ DOMAIN cell.val # {}

\* every result of an op is an object, hence truthy
truthy(cell) == cell.tag = "object"

\* the instance, its closures and what the current call has done so far
self ==
  [array |-> array, raw |-> raw, props |-> props, cache |-> cache,
   indexNames |-> indexNames, removed |-> removed, error |-> error, ret |-> ret,
   calls |-> calls]

\* faulty variant of setter: any assigned value clears the cache
setterClearsAlways(s, to, val) ==
  [s EXCEPT !.cache[to] = cacheFalse, !.calls = Append(@, "set:" \o to)]

\* set: function (val) of the accessor defined under name to
setter(s, to, val) ==
  IF val = CLEAR_CACHE
    THEN [s EXCEPT !.cache[to] = cacheFalse, !.calls = Append(@, "set:" \o to)]
    ELSE [s EXCEPT !.error = "TypeError", !.calls = Append(@, "throw:" \o to)]

\* faulty variant of getter: the op runs on every read
getterAlwaysBuilds(s, to) ==
  LET built == Cell("object", applyOp(s.props[to].op, s.raw, s.props[to].from))
  IN [s EXCEPT !.cache[to] = built, !.ret = Value("view", built),
               !.calls = Append(@, "op:" \o to)]

\* faulty variant of getter: one cache variable is shared by all accessors
getterSharedCache(s, to) ==
  IF truthy(s.cache[to])
    THEN [s EXCEPT !.ret = Value("view", s.cache[to])]
    ELSE LET built == Cell("object", applyOp(s.props[to].op, s.raw, s.props[to].from))
         IN [s EXCEPT !.cache = [name \in DOMAIN s.cache |-> built],
                      !.ret = Value("view", built),
                      !.calls = Append(@, "op:" \o to)]

\* get: function () of the accessor defined under name to
getter(s, to) ==
  IF truthy(s.cache[to])
    THEN [s EXCEPT !.ret = Value("view", s.cache[to])]
    ELSE LET built == Cell("object", applyOp(s.props[to].op, s.raw, s.props[to].from))
         IN [s EXCEPT !.cache[to] = built, !.ret = Value("view", built),
                      !.calls = Append(@, "op:" \o to)]

\* faulty variant of defineProperty: the property is configurable, so a
\* second definition replaces the first
definePropertyConfigurable(s, to, op, from) ==
  [s EXCEPT !.props = Put(@, to, [op |-> op, from |-> from]),
            !.cache = Put(@, to, cacheUndefined),
            !.calls = Append(@, "defineProperty:" \o to)]

\* Object.defineProperty(self, to, {configurable: false, set, get}) inside
\* props.map: redefining a non-configurable property throws
defineProperty(s, to, op, from) ==
  IF to \in DOMAIN s.props
    THEN [s EXCEPT !.error = "TypeError", !.calls = Append(@, "throw:" \o to)]
    ELSE [s EXCEPT !.props = Put(@, to, [op |-> op, from |-> from]),
                   !.cache = Put(@, to, cacheUndefined),
                   !.calls = Append(@, "defineProperty:" \o to)]

\* props.map(function (prop) {...}) from the i-th prop on; a throw ends the map
RECURSIVE mapProps(_, _, _, _, _, _)
mapProps(s, propList, which, op, i, names) ==
  IF i > Len(propList) \/ s.error # "none" THEN [s |-> s, names |-> names]
  ELSE LET to == inflect(which, propList[i])
       IN mapProps(defineProperty(s, to, op, propList[i]), propList, which, op, i + 1,
                   Append(names, to))

\* faulty variant of _setupIndices: no shortcut, so props.map is called on
\* an absent props and throws
setupIndicesNoShortcut(s, propList, which, op) ==
  IF s.error # "none" THEN [s |-> s, names |-> <<>>]
  ELSE IF ~propList.given
    THEN [s |-> [s EXCEPT !.error = "TypeError"], names |-> <<>>]
    ELSE mapProps(s, propList.list, which, op, 1, <<>>)

\* Registry.prototype._setupIndices: the instance afterwards and the names
\* returned (none for absent or empty props)
setupIndices(s, propList, which, op) ==
  IF s.error # "none" \/ ~propList.given \/ Len(propList.list) = 0
    THEN [s |-> s, names |-> <<>>]
    ELSE mapProps(s, propList.list, which, op, 1, <<>>)

\* _.union of the name lists: first occurrences, in order
RECURSIVE union(_, _)
union(names, acc) ==
  IF names = <<>> THEN acc
  ELSE union(Tail(names),
             IF \E j \in 1..Len(acc) : acc[j] = Head(names) THEN acc ELSE Append(acc, Head(names)))

\* self._indexNames.forEach(function (name) { self[name] = CLEAR_CACHE; })
RECURSIVE clearFrom(_, _)
clearFrom(s, i) ==
  IF i > Len(s.indexNames) THEN s
  ELSE clearFrom(setter(s, s.indexNames[i], CLEAR_CACHE), i + 1)

\* faulty variant of _clearIndices: the first index name is skipped
clearIndicesButFirst(s) == clearFrom([s EXCEPT !.calls = Append(@, "_clearIndices")], 2)

\* Registry.prototype._clearIndices
clearIndices(s) == clearFrom([s EXCEPT !.calls = Append(@, "_clearIndices")], 1)

\* faulty variant of the wrapper: both calls of orig go to this, none to raw
wrappedOnThisTwice(s, method, args) ==
  LET s1 == [s EXCEPT !.array = orig(method, s.array, args).seq,
                      !.calls = Append(@, "orig:this")]
      s2 == clearIndices(s1)
      r == orig(method, s2.array, args)
  IN [s2 EXCEPT !.array = r.seq, !.ret = r.ret, !.calls = Append(@, "orig:this")]

\* faulty variant of the wrapper: the indices are not cleared
wrappedNoClear(s, method, args) ==
  LET s1 == [s EXCEPT !.array = orig(method, s.array, args).seq,
                      !.calls = Append(@, "orig:this")]
      r == orig(method, s1.raw, args)
  IN [s1 EXCEPT !.raw = r.seq, !.ret = r.ret, !.calls = Append(@, "orig:raw")]

\* faulty variant of the wrapper: the indices are cleared before this is changed
wrappedClearFirst(s, method, args) ==
  LET s1 == clearIndices(s)
      s2 == [s1 EXCEPT !.array = orig(method, s1.array, args).seq,
                       !.calls = Append(@, "orig:this")]
      r == orig(method, s2.raw, args)
  IN [s2 EXCEPT !.raw = r.seq, !.ret = r.ret, !.calls = Append(@, "orig:raw")]

\* faulty variant of the wrapper: the result of orig is not returned
wrappedNoReturn(s, method, args) ==
  LET s1 == [s EXCEPT !.array = orig(method, s.array, args).seq,
                      !.calls = Append(@, "orig:this")]
      s2 == clearIndices(s1)
      r == orig(method, s2.raw, args)
  IN [s2 EXCEPT !.raw = r.seq, !.ret = undefined, !.calls = Append(@, "orig:raw")]

\* Registry.prototype[method]: the wrapper around Array.prototype[method]
\* orig.apply(this, arguments)
origOnThis(s, method, args) ==
  [s EXCEPT !.array = orig(method, s.array, args).seq,
            !.calls = Append(@, "orig:this")]

\* faulty variant of origOnRaw: the indices are cleared once more
origOnRawClears(s, method, args) ==
  LET r == orig(method, s.raw, args)
  IN [clearFrom(s, 1) EXCEPT !.raw = r.seq, !.ret = r.ret,
                             !.calls = Append(@, "orig:raw")]

\* return orig.apply(this.raw, arguments)
origOnRaw(s, method, args) ==
  LET r == orig(method, s.raw, args)
  IN [s EXCEPT !.raw = r.seq, !.ret = r.ret, !.calls = Append(@, "orig:raw")]

wrapped(s, method, args) ==
  origOnRaw(clearIndices(origOnThis(s, method, args)), method, args)

\* faulty variant of toJSON: the registry itself is handed to the serializer
toJSONSelf(s) == [s EXCEPT !.ret = Value("registry", s.array)]

\* Registry.prototype.toJSON
toJSON(s) == [s EXCEPT !.ret = Value("array", s.raw)]

\* the instance before the constructor body runs
blank ==
  [array |-> <<>>, raw |-> <<>>, props |-> EmptyObject, cache |-> EmptyObject,
   indexNames |-> <<>>, removed |-> {}, error |-> "none", ret |-> undefined,
   calls |-> <<"new">>]

\* faulty variant of disable: push stays callable
disableSpliceOnly(s) == [s EXCEPT !.removed = {"splice"}, !.calls = Append(@, "disable")]

\* this.push = this.splice = undefined
disable(s) == [s EXCEPT !.removed = {"push", "splice"}, !.calls = Append(@, "disable")]

\* faulty variant of the constructor: push is removed before the initial set
\* is pushed, so seeding an immutable registry throws
RegistryDisableFirst(cfg) ==
  LET g == setupIndices(blank, cfg.group, "inflectIndex", "groupBy")
      x == setupIndices(g.s, cfg.index, "inflectIndex", "indexBy")
      o == setupIndices(x.s, cfg.order, "inflectOrder", "sortBy")
      named == [o.s EXCEPT !.indexNames = union(g.names \o x.names \o o.names, <<>>)]
      done == IF cfg.immutable THEN disable(named) ELSE named
      seeded == IF cfg.initialSet.given
                  THEN IF "push" \in done.removed
                         THEN [done EXCEPT !.error = "TypeError"]
                         ELSE wrapped(done, "push", ItemArgs(cfg.initialSet.list))
                  ELSE done
  IN IF o.s.error # "none" THEN o.s ELSE [seeded EXCEPT !.ret = undefined]

\* function Registry(config)
Registry(cfg) ==
  LET g == setupIndices(blank, cfg.group, "inflectIndex", "groupBy")
      x == setupIndices(g.s, cfg.index, "inflectIndex", "indexBy")
      o == setupIndices(x.s, cfg.order, "inflectOrder", "sortBy")
      named == [o.s EXCEPT !.indexNames = union(g.names \o x.names \o o.names, <<>>)]
      seeded == IF cfg.initialSet.given
                  THEN wrapped(named, "push", ItemArgs(cfg.initialSet.list))
                  ELSE named
      done == IF cfg.immutable THEN disable(seeded) ELSE seeded
  IN IF o.s.error # "none" THEN o.s ELSE [done EXCEPT !.ret = undefined]

(* ---------------------------------------------------------------------- *)
(* Entry points                                                           *)
(* ---------------------------------------------------------------------- *)

\* the variables take the values of s
Become(s) ==
  /\ array' = s.array
  /\ raw' = s.raw
  /\ props' = s.props
  /\ cache' = s.cache
  /\ indexNames' = s.indexNames
  /\ removed' = s.removed
  /\ error' = s.error
  /\ ret' = s.ret
  /\ calls' = s.calls

\* a call of entry point e starts with no error, nothing returned and a
\* call log of its own
entering(e) == [self EXCEPT !.error = "none", !.ret = undefined, !.calls = <<e>>]

\* no wrapped method is under way
Idle == [pc |-> "idle", method |-> "none", args |-> NoArgs, raced |-> FALSE]

Init ==
  /\ phase = "new"
  /\ pending = Idle
  /\ immutable = FALSE
  /\ array = <<>>
  /\ raw = <<>>
  /\ props = EmptyObject
  /\ cache = EmptyObject
  /\ indexNames = <<>>
  /\ removed = {}
  /\ error = "none"
  /\ ret = undefined
  /\ calls = <<>>

\* new Registry(cfg): a throw leaves no instance to the caller
New(cfg) ==
  /\ phase = "new"
  /\ immutable' = cfg.immutable
  /\ LET s == Registry(cfg)
     IN /\ phase' = IF s.error = "none" THEN "ready" ELSE "failed"
        /\ Become(s)
  /\ UNCHANGED pending

Construct == \E cfg \in Configs : New(cfg)

\* registry[method](args...): a method shadowed by undefined cannot be called
Invoke(method, args) ==
  /\ phase = "ready"
  /\ pending.pc = "idle"
  /\ UNCHANGED <<phase, immutable, pending>>
  /\ IF method \in removed
       THEN Become([entering(method) EXCEPT !.error = "TypeError", !.ret = undefined])
       ELSE Become(wrapped(entering(method), method, args))

Push ==
  \E items \in SeqUpTo(Records, MaxArgs) :
    /\ Len(array) + Len(items) <= MaxLen
    /\ Invoke("push", ItemArgs(items))

Unshift ==
  \E items \in SeqUpTo(Records, MaxArgs) :
    /\ Len(array) + Len(items) <= MaxLen
    /\ Invoke("unshift", ItemArgs(items))

Pop ==
  /\ phase = "ready"
  /\ Invoke("pop", NoArgs)

Shift ==
  /\ phase = "ready"
  /\ Invoke("shift", NoArgs)

Reverse ==
  /\ phase = "ready"
  /\ Invoke("reverse", NoArgs)

\* the argument lists of splice: none, start, start and deleteCount, and
\* those with one item to insert
SpliceArgs ==
  {NoArgs}
    \cup {Args(1, start, 0, <<>>) : start \in (0 - 1)..MaxLen}
    \cup {Args(2, start, deleteCount, <<>>) :
            start \in (0 - 1)..MaxLen, deleteCount \in (0 - 1)..1}
    \cup {Args(3, start, deleteCount, <<item>>) :
            start \in (0 - 1)..MaxLen, deleteCount \in (0 - 1)..1, item \in Records}

Splice ==
  \E args \in SpliceArgs :
    /\ Len(spliceOf(array, args).seq) <= MaxLen
    /\ Invoke("splice", args)

\* reading registry[name] for a declared view
Read(name) ==
  /\ phase = "ready"
  /\ Become(getter(entering("get:" \o name), name))
  /\ UNCHANGED <<phase, immutable, pending>>

Get == \E name \in DOMAIN props : Read(name)

\* registry[name] = val from outside the module
Write(name, val) ==
  /\ phase = "ready"
  /\ Become([setter(entering("set:" \o name), name, val) EXCEPT !.ret = undefined])
  /\ UNCHANGED <<phase, immutable, pending>>

Set == \E name \in DOMAIN props, val \in ExternalValues : Write(name, val)

\* registry.toJSON(), as the JSON serializer calls it
ToJSON ==
  /\ phase = "ready"
  /\ Become(toJSON(entering("toJSON")))
  /\ UNCHANGED <<phase, immutable, pending>>

Next ==
  \/ Construct
  \/ Push
  \/ Pop
  \/ Shift
  \/ Unshift
  \/ Splice
  \/ Reverse
  \/ Get
  \/ Set
  \/ ToJSON

Spec == Init /\ [][Next]_vars

(* ---------------------------------------------------------------------- *)
(* A wrapped method taken one statement at a time, with reads in between  *)
(* ---------------------------------------------------------------------- *)

\* the argument lists a caller passes to method: one item to add, or one
\* place to delete at or to cut from
ArgsOf(method) ==
  IF method \in {"push", "unshift"}
    THEN {ItemArgs(<<item>>) : item \in Records}
    ELSE IF method = "splice"
      THEN {Args(2, start, deleteCount, <<>>) :
              start \in 0..(MaxArgs - 1), deleteCount \in 0..1}
      ELSE {NoArgs}

\* registry[method](args...) up to and including orig.apply(this, arguments)
Enter(method, args) ==
  /\ phase = "ready"
  /\ pending.pc = "idle"
  /\ Len(orig(method, array, args).seq) <= MaxLen
  /\ UNCHANGED <<phase, immutable>>
  /\ IF method \in removed
       THEN /\ Become([entering(method) EXCEPT !.error = "TypeError", !.ret = undefined])
            /\ UNCHANGED pending
       ELSE /\ Become(origOnThis(entering(method), method, args))
            /\ pending' = [pc |-> "mutated", method |-> method, args |-> args,
                           raced |-> FALSE]

Begin == \E method \in Methods : \E args \in ArgsOf(method) : Enter(method, args)

\* this._clearIndices() of the method under way
Clear ==
  /\ pending.pc = "mutated"
  /\ Become(clearIndices(self))
  /\ pending' = [pending EXCEPT !.pc = "cleared"]
  /\ UNCHANGED <<phase, immutable>>

\* return orig.apply(this.raw, arguments) of the method under way
Finish ==
  /\ pending.pc = "cleared"
  /\ Become(origOnRaw(self, pending.method, pending.args))
  /\ pending' = [pending EXCEPT !.pc = "idle", !.method = "none", !.args = NoArgs]
  /\ UNCHANGED <<phase, immutable>>

\* reading registry[name] at any point, also inside a method under way;
\* error, ret and calls stay those of the caller of the method
ReadAnytime(name) ==
  /\ phase = "ready"
  /\ cache' = getter(self, name).cache
  /\ pending' = [pending EXCEPT !.raced = @ \/ pending.pc # "idle"]
  /\ UNCHANGED <<phase, immutable, array, raw, props, indexNames, removed, error, ret, calls>>

GetAnytime == \E name \in DOMAIN props : ReadAnytime(name)

NextRace ==
  \/ Construct
  \/ Begin
  \/ Clear
  \/ Finish
  \/ GetAnytime

SpecRace == Init /\ [][NextRace]_vars

(* ---------------------------------------------------------------------- *)
(* Properties                                                             *)
(* ---------------------------------------------------------------------- *)

Views == DOMAIN props

\* how often x occurs in seq
Count(seq, x) == Cardinality({i \in DOMAIN seq : seq[i] = x})

\* the entry point called last
entry == IF calls = <<>> THEN "none" ELSE calls[1]

\* the last call was a wrapped mutating method and it returned
mutated == phase = "ready" /\ entry \in Methods /\ error = "none"

\* C1 (mirror consistency): after every completed operation the raw mirror
\* and the public sequence have the same length and the same elements in
\* the same order.
C1_MirrorConsistency ==
  /\ Len(raw) = Len(array)
  /\ \A i \in 1..Len(array) : raw[i] = array[i]

\* a splice that returned, on a registry of several records
C1_Witness == mutated /\ entry = "splice" /\ Len(array) >= 2 /\ Len(raw) >= 2

\* C2 (no stale view): a cache that is not absent holds what its op yields
\* on the current raw mirror, and a read of a view returns what its op
\* yields on the current raw mirror.
C2_NoStaleView ==
  \A name \in Views :
    /\ truthy(cache[name]) =>
         cache[name].val = applyOp(props[name].op, raw, props[name].from)
    /\ (phase = "ready" /\ entry = "get:" \o name) =>
         /\ ret.type = "view"
         /\ ret.val.tag = "object"
         /\ ret.val.val = applyOp(props[name].op, raw, props[name].from)

\* a read that had to run its op on a registry that was changed before
C2_Witness ==
  \E name \in Views :
    /\ calls = <<"get:" \o name, "op:" \o name>>
    /\ truthy(cache[name])
    /\ Len(raw) >= 2

C4_ImmutableContentFixed ==
  [][(phase = "ready" /\ immutable) => (array' = array /\ raw' = raw)]_vars

\* C5 (external view write rejection): an assignment to a view's name from
\* outside throws and leaves every cache, the public sequence and the raw
\* mirror as they were; a materialized cache becomes absent only within
\* _clearIndices.
C5_ExternalWriteRejected ==
  /\ [][\A name \in Views :
          entry' = "set:" \o name =>
            /\ error' = "TypeError"
            /\ cache' = cache
            /\ array' = array
            /\ raw' = raw
            /\ props' = props]_vars
  /\ [][\A name \in DOMAIN cache \cap DOMAIN cache' :
          (truthy(cache[name]) /\ ~truthy(cache'[name])) =>
            Count(calls', "_clearIndices") = 1]_vars

\* an assignment to a view whose cache is materialized was rejected
C5_Witness ==
  \E name \in Views :
    /\ entry = "set:" \o name
    /\ error = "TypeError"
    /\ truthy(cache[name])
    /\ Len(raw) >= 1

\* the public names a configuration derives, in declaration order
derived(cfg) ==
  [i \in 1..Len(cfg.group.list) |-> inflectIndex(cfg.group.list[i])]
    \o [i \in 1..Len(cfg.index.list) |-> inflectIndex(cfg.index.list[i])]
    \o [i \in 1..Len(cfg.order.list) |-> inflectOrder(cfg.order.list[i])]

\* two declarations of cfg derive the same public name
collides(cfg) ==
  \E i, j \in 1..Len(derived(cfg)) : i # j /\ derived(cfg)[i] = derived(cfg)[j]

\* C6 (uniqueness enforcement): constructing with two declarations that
\* derive the same public name throws before the initial dataset is pushed,
\* and no registry is returned.
C6_UniquenessEnforced ==
  [][phase = "new" =>
       \A cfg \in Configs :
         (New(cfg) /\ collides(cfg)) =>
           /\ phase' = "failed"
           /\ error' = "TypeError"
           /\ Count(calls', "orig:this") = 0
           /\ array' = <<>>
           /\ raw' = <<>>]_vars

\* a construction that threw on its second definition of a name
C6_Witness ==
  /\ phase = "failed"
  /\ error = "TypeError"
  /\ Len(calls) = 3
  /\ calls[3] = "throw:byKind"
  /\ array = <<>>

\* C7 (idempotent read): a read leaves the object it returns in the cache;
\* while no mutating method runs the cache keeps that object, and a read
\* of a materialized view returns the cached object without running the op
\* again, whatever the view kind and also when the result is empty.
C7_IdempotentRead ==
  /\ [](\A name \in Views :
          (phase = "ready" /\ entry = "get:" \o name) =>
            (truthy(cache[name]) /\ ret = Value("view", cache[name])))
  /\ [][\A name \in DOMAIN cache \cap DOMAIN cache' :
          /\ (truthy(cache[name]) /\ entry' = "get:" \o name) =>
               /\ calls' = <<"get:" \o name>>
               /\ cache'[name] = cache[name]
               /\ ret' = Value("view", cache[name])
          /\ (truthy(cache[name]) /\ cache'[name] # cache[name]) =>
               entry' \in Methods]_vars

\* a second read of a view of the empty registry, answered from the cache
C7_Witness ==
  \E name \in Views :
    /\ calls = <<"get:" \o name>>
    /\ raw = <<>>
    /\ ret = Value("view", cache[name])

\* C8 (_clearIndices once per mutation): a wrapped mutating method that
\* returns calls _clearIndices exactly once, after orig ran on this and
\* before it returns; the constructor calls it only through the push of the
\* initial set; reads, assignments and calls that throw never call it.
C8_ClearOncePerMutation ==
  /\ mutated =>
       /\ Count(calls, "_clearIndices") = 1
       /\ calls[2] = "orig:this"
       /\ calls[3] = "_clearIndices"
       /\ calls[Len(calls)] = "orig:raw"
  /\ (phase = "ready" /\ entry = "new") =>
       /\ Count(calls, "_clearIndices") = Count(calls, "orig:this")
       /\ Count(calls, "orig:this") <= 1
       /\ \A i \in 1..Len(calls) : calls[i] = "_clearIndices" => calls[i - 1] = "orig:this"
  /\ ~(mutated \/ (phase = "ready" /\ entry = "new")) =>
       Count(calls, "_clearIndices") = 0

\* a splice returned on a registry with a declared view
C8_Witness == mutated /\ entry = "splice" /\ Len(indexNames) >= 1 /\ Len(array) >= 1

\* C9 (append on an immutable registry): on a registry constructed with
\* immutable set a call of push throws and leaves the public sequence, the
\* raw mirror and every cache as they were.
C9_ImmutablePushFails ==
  [][(phase = "ready" /\ immutable /\ entry' = "push") =>
       /\ error' = "TypeError"
       /\ array' = array
       /\ raw' = raw
       /\ cache' = cache]_vars

\* a push that threw on an immutable registry holding a materialized view
C9_Witness ==
  /\ phase = "ready"
  /\ immutable
  /\ entry = "push"
  /\ error = "TypeError"
  /\ Len(array) >= 1
  /\ \E name \in Views : truthy(cache[name])

\* the record that stands last in seq among those whose key is key
lastWith(seq, from, key) ==
  seq[CHOOSE i \in 1..Len(seq) :
        /\ pathGetter(from, seq[i]) = key
        /\ \A j \in (i + 1)..Len(seq) : pathGetter(from, seq[j]) # key]

\* C10 (index collision, by position): a read of an index view maps each
\* key that occurs in the registry, and no other, to the record that stands
\* last in the current order among the records with that key.
C10_IndexLastInOrder ==
  \A name \in Views :
    (phase = "ready" /\ entry = "get:" \o name /\ props[name].op = "indexBy") =>
      /\ DOMAIN ret.val.val = {pathGetter(props[name].from, array[i]) : i \in 1..Len(array)}
      /\ \A key \in DOMAIN ret.val.val :
           ret.val.val[key] = lastWith(array, props[name].from, key)

\* a read of an index view while two different records share a key
C10_Witness ==
  \E name \in Views :
    /\ phase = "ready"
    /\ entry = "get:" \o name
    /\ props[name].op = "indexBy"
    /\ \E i, j \in 1..Len(array) :
         i < j /\ array[i].kind = array[j].kind /\ array[i] # array[j]

\* the instance as the step leaves it
selfNext ==
  [array |-> array', raw |-> raw', props |-> props', cache |-> cache',
   indexNames |-> indexNames', removed |-> removed', error |-> error', ret |-> ret',
   calls |-> calls']

\* what a read of view name returns when it comes right after the step
readNext(name) == getter(selfNext, name).ret.val.val

\* the step is a call of method that returned
returned(method) == phase = "ready" /\ entry' = method /\ error' = "none"

\* the record that stands first in seq among those whose key is key
firstWith(seq, from, key) ==
  seq[CHOOSE i \in 1..Len(seq) :
        /\ pathGetter(from, seq[i]) = key
        /\ \A j \in 1..(i - 1) : pathGetter(from, seq[j]) # key]

keysOf(seq, from) == {pathGetter(from, seq[i]) : i \in 1..Len(seq)}

\* C11 (index collision, by insertion time), as claimed: the record a push,
\* an unshift or a splice has just inserted is the one the index view holds
\* for its key, and a reverse does not change which record the view holds.
C11_LastInsertedWins ==
  [][\A name \in DOMAIN props :
       props[name].op = "indexBy" =>
         /\ \A method \in {"push", "unshift"}, item \in Records :
              (returned(method) /\ Invoke(method, ItemArgs(<<item>>))) =>
                readNext(name)[pathGetter(props[name].from, item)] = item
         /\ \A args \in SpliceArgs :
              (returned("splice") /\ args.argc = 3 /\ Invoke("splice", args)) =>
                readNext(name)[pathGetter(props[name].from, args.items[1])] = args.items[1]
         /\ (returned("reverse") /\ Invoke("reverse", NoArgs)) =>
              readNext(name) = indexBy(raw, props[name].from)]_vars

\* C11, amended: the index view holds, for each key, the record that stands
\* last in the current order.  Records appended by push win for their keys;
\* a record put in front by unshift does not displace a record with the
\* same key that was already there; after reverse the record that stood
\* first wins.
C11_LastInOrderWins ==
  [][\A name \in DOMAIN props :
       (props[name].op = "indexBy" /\ phase = "ready" /\ entry' \in Methods /\ error' = "none") =>
         LET from == props[name].from
             grown == Len(array') - Len(array)
         IN /\ DOMAIN readNext(name) = keysOf(array', from)
            /\ \A key \in keysOf(array', from) :
                 readNext(name)[key] = lastWith(array', from, key)
            /\ entry' = "push" =>
                 LET items == SubSeq(array', Len(array) + 1, Len(array'))
                 IN /\ Invoke("push", ItemArgs(items))
                    /\ \A key \in keysOf(items, from) :
                         readNext(name)[key] = lastWith(items, from, key)
            /\ entry' = "unshift" =>
                 LET items == SubSeq(array', 1, grown)
                 IN /\ Invoke("unshift", ItemArgs(items))
                    /\ \A key \in keysOf(array, from) :
                         readNext(name)[key] = lastWith(array, from, key)
                    /\ \A key \in keysOf(items, from) \ keysOf(array, from) :
                         readNext(name)[key] = lastWith(items, from, key)
            /\ entry' = "reverse" =>
                 \A key \in keysOf(array, from) :
                   readNext(name)[key] = firstWith(array, from, key)]_vars

\* an unshift returned and left a record in front of a different record
\* with the same key, on a registry with an index view
C11_Witness ==
  /\ mutated
  /\ entry = "unshift"
  /\ \E name \in Views : props[name].op = "indexBy"
  /\ Len(array) >= 2
  /\ array[1].kind = array[2].kind
  /\ array[1] # array[2]

\* C12 (return values): a wrapped method returns what the Array method
\* returns for raw, which is what it would return for the public sequence:
\* push and unshift the new length, pop and shift the removed record or
\* undefined on an empty registry, splice the removed records in order,
\* reverse the reversed content.
C12_ReturnValues ==
  [][(phase = "ready" /\ entry' \in Methods /\ error' = "none") =>
       /\ entry' \in {"push", "unshift"} =>
            ret' = Value("number", Len(array')) /\ ret'.val = Len(raw')
       /\ entry' = "pop" =>
            /\ ret' = orig("pop", raw, NoArgs).ret
            /\ ret' = orig("pop", array, NoArgs).ret
            /\ array = <<>> => ret' = undefined
            /\ array # <<>> => (ret' = Value("record", array[Len(array)])
                                 /\ array' = SubSeq(array, 1, Len(array) - 1))
       /\ entry' = "shift" =>
            /\ ret' = orig("shift", raw, NoArgs).ret
            /\ ret' = orig("shift", array, NoArgs).ret
            /\ array = <<>> => ret' = undefined
            /\ array # <<>> => (ret' = Value("record", array[1]) /\ array' = Tail(array))
       /\ entry' = "splice" =>
            /\ ret'.type = "array"
            /\ \E at \in 0..Len(array) :
                 /\ at + Len(ret'.val) <= Len(array)
                 /\ ret'.val = SubSeq(array, at + 1, at + Len(ret'.val))
                 /\ SubSeq(array', 1, at) = SubSeq(array, 1, at)
                 /\ \E inserted \in 0..Len(array') :
                      SubSeq(array', at + inserted + 1, Len(array'))
                        = SubSeq(array, at + Len(ret'.val) + 1, Len(array))
       /\ entry' = "reverse" =>
            /\ ret'.type = "array"
            /\ Len(ret'.val) = Len(array)
            /\ \A i \in 1..Len(array) : ret'.val[i] = array[Len(array) + 1 - i]
            /\ ret'.val = array']_vars

\* a splice returned the two records it removed
C12_Witness ==
  /\ mutated
  /\ entry = "splice"
  /\ ret.type = "array"
  /\ Len(ret.val) = 2
  /\ ret.val[1] # ret.val[2]

C14_Serialization ==
  (phase = "ready" /\ entry = "toJSON") =>
    /\ error = "none"
    /\ ret.type = "array"
    /\ ret.val = raw
    /\ Len(ret.val) = Len(array)
    /\ \A i \in 1..Len(array) : ret.val[i] = array[i] /\ ret.val[i] \in Records
    /\ DOMAIN ret.val = 1..Len(array)

\* toJSON was called while a view of a registry of two records was cached
C14_Witness ==
  /\ phase = "ready"
  /\ entry = "toJSON"
  /\ Len(raw) >= 2
  /\ \E name \in Views : truthy(cache[name])

\* the records of seq whose key is key, in the order of seq
withKey(seq, from, key) == SelectSeq(seq, LAMBDA rec : pathGetter(from, rec) = key)

\* C15 (order stability): a read of an order view returns the records of
\* the registry ascending by key, the records of each key in the order
\* they have in the registry (hence the same records, as often); the read
\* leaves the order of the registry as it was.
C15_OrderStable ==
  /\ [](\A name \in Views :
          (phase = "ready" /\ entry = "get:" \o name /\ props[name].op = "sortBy") =>
            LET from == props[name].from
                sorted == ret.val.val
            IN /\ Len(sorted) = Len(array)
               /\ \A i, j \in 1..Len(sorted) :
                    i < j => pathGetter(from, sorted[i]) <= pathGetter(from, sorted[j])
               /\ \A key \in keysOf(array, from) \cup keysOf(sorted, from) :
                    withKey(sorted, from, key) = withKey(array, from, key))
  /\ [][\A name \in DOMAIN props :
          (phase = "ready" /\ entry' = "get:" \o name /\ props[name].op = "sortBy") =>
            (array' = array /\ raw' = raw)]_vars

\* a read of an order view that had to move a record past two different
\* records that share a key
C15_Witness ==
  \E name \in Views :
    /\ phase = "ready"
    /\ entry = "get:" \o name
    /\ props[name].op = "sortBy"
    /\ Len(array) = 3
    /\ array[1].kind > array[2].kind
    /\ array[2].kind = array[3].kind
    /\ array[2] # array[3]

\* the kinds of declaration that cfg leaves absent or empty
noneOf(list) == ~list.given \/ list.list = <<>>

\* C16 (optional configuration): a kind of declaration that is absent or
\* empty yields no view of that kind, and no view at all when all three
\* are; without initialSet the registry is empty; without immutable every
\* method stays callable; on a registry without views every wrapped method
\* returns and keeps raw equal to the public sequence.
C16_OptionalConfig ==
  /\ [][phase = "new" =>
          \A cfg \in Configs :
            (New(cfg) /\ ~collides(cfg)) =>
              /\ phase' = "ready"
              /\ noneOf(cfg.group) => \A name \in DOMAIN props' : props'[name].op # "groupBy"
              /\ noneOf(cfg.index) => \A name \in DOMAIN props' : props'[name].op # "indexBy"
              /\ noneOf(cfg.order) => \A name \in DOMAIN props' : props'[name].op # "sortBy"
              /\ (noneOf(cfg.group) /\ noneOf(cfg.index) /\ noneOf(cfg.order)) =>
                   (DOMAIN props' = {} /\ indexNames' = <<>> /\ DOMAIN cache' = {})
              /\ ~cfg.initialSet.given => (array' = <<>> /\ raw' = <<>>)
              /\ ~cfg.immutable => removed' = {}]_vars
  /\ []((phase = "ready" /\ Views = {} /\ ~immutable /\ entry \in Methods) =>
          (error = "none" /\ array = raw /\ calls[Len(calls)] = "orig:raw"))

\* a splice returned on a mutable registry without views
C16_Witness ==
  /\ mutated
  /\ Views = {}
  /\ ~immutable
  /\ entry = "splice"
  /\ Len(array) >= 2

C18_ReadFrame ==
  [][\A name \in DOMAIN props :
       (phase = "ready" /\ entry' = "get:" \o name) =>
         /\ array' = array
         /\ raw' = raw
         /\ props' = props
         /\ indexNames' = indexNames
         /\ removed' = removed
         /\ immutable' = immutable
         /\ error' = "none"
         /\ \A other \in DOMAIN cache \ {name} : cache'[other] = cache[other]
         /\ truthy(cache'[name])
         /\ truthy(cache[name]) => cache' = cache]_vars

\* a read materialized its view next to another view that was materialized
C18_Witness ==
  \E name \in Views, other \in Views :
    /\ other # name
    /\ calls = <<"get:" \o name, "op:" \o name>>
    /\ truthy(cache[other])
    /\ Len(raw) >= 1

\* the view name holds a value other than its op on the current content
stale(name) ==
  /\ truthy(cache[name])
  /\ cache[name].val # applyOp(props[name].op, raw, props[name].from)

\* C19 (need for external exclusion): inside a wrapped method the public
\* sequence is already changed while raw is not; a read after the clearing
\* and before the change of raw fills its cache from that raw, and the
\* last statement changes raw and leaves every cache as it is, so the
\* cache outlives the method.  When no read fell inside a method, every
\* cache that is filled after the method equals its op on the content.
C19_ExclusionNeeded ==
  /\ [](pending.pc \in {"mutated", "cleared"} =>
          /\ array = orig(pending.method, raw, pending.args).seq
          /\ pending.pc = "cleared" =>
               \A name \in Views :
                 truthy(cache[name]) =>
                   (pending.raced /\ ~stale(name)))
  /\ [][(pending.pc = "cleared" /\ pending'.pc = "idle") =>
          /\ cache' = cache
          /\ raw' = array
          /\ array' = array
          /\ raw' = orig(pending.method, raw, pending.args).seq]_vars
  /\ []((phase = "ready" /\ pending.pc = "idle" /\ ~pending.raced) =>
          /\ array = raw
          /\ \A name \in Views : ~stale(name))

\* a read fell between the clearing and the change of raw, and after the
\* method returned the view read holds a value that is not its op on the
\* content
C19_Witness ==
  /\ phase = "ready"
  /\ pending.pc = "idle"
  /\ pending.raced
  /\ array = raw
  /\ \E name \in Views : stale(name)

====
